---- MODULE Spec2Model ----
(***************************************************************************)
(* Model of the vaccine scheduling engine of terrence2/vaccine_helper      *)
(* (src/src/schedule.rs): the vaccine catalog, DoseSchedule::all_months,   *)
(* BoosterSchedule::all_months, Vaccine::all_doses, Vaccine::schedule and  *)
(* VaccineAppointment::mo_to_ym.                                           *)
(*                                                                         *)
(* Time.  The engine only ever looks at a record's date through            *)
(* `&record.date - now`, rounded to whole months (half away from zero,     *)
(* jiff's default RoundMode::HalfExpand), and through Ord (by date).  A    *)
(* record's date is therefore kept as its signed distance from `now` on a  *)
(* grid of TicksPerMonth ticks per month: negative is the past.            *)
(*                                                                         *)
(* Outcomes.  A Rust call either returns Ok(v), returns Err(e) (the `?`    *)
(* operator) or panics (unwrap, expect, assert!, overflow in a debug       *)
(* build).  Every modelled function returns a record                       *)
(*   [status |-> "ok" | "err" | "panic", why |-> STRING, val |-> value].   *)
(***************************************************************************)
EXTENDS Integers, Sequences, FiniteSets, TLC

VARIABLES
    build,          \* "debug" | "release": whether integer overflow panics or wraps
    now,            \* [year, month] of the reference instant
    prio,           \* Seq of vaccine names, the caller's enabled-vaccine order
    end_plan_year,  \* the planning horizon
    records,        \* Seq of VaccineRecord
    pc,             \* "call" before Vaccine::schedule has run, "done" after
    result,         \* the outcome of Vaccine::schedule
    VACCINES,       \* the OnceLock behind Vaccine::get_vaccines
    calls,          \* the calls of Vaccine::schedule so far: inputs and outcome
    bs_in,          \* inputs of a direct call of BoosterSchedule::all_months
    bs_out,         \* its outcome
    ym_in,          \* inputs of a direct call of mo_to_ym
    ym_out,         \* its outcome
    ds_in,          \* inputs of a direct call of DoseSchedule::all_months
    ds_out,         \* its outcome
    vd_in,          \* inputs of a direct call of Vaccine::all_doses
    vd_out,         \* its outcome
    threads,        \* the threads that call Vaccine::get_vaccines: where each is, what it got
    once_running,   \* the Once of VACCINES is RUNNING: a thread is initialising it
    built,          \* how many times the initialising closure has built the catalog
    active_profile, \* VaccineHelperApp.active_profile
    profiles,       \* VaccineHelperApp.profiles: name -> the records of the profile
    add_record,     \* VaccineHelperApp.add_record: the record being entered, or None
    add_profile_name, \* VaccineHelperApp.add_profile_name
    shown           \* what the schedule view has drawn, in drawing order

vars == <<build, now, prio, end_plan_year, records, pc, result, VACCINES, calls,
          bs_in, bs_out, ym_in, ym_out, ds_in, ds_out, vd_in, vd_out,
          threads, once_running, built,
          active_profile, profiles, add_record, add_profile_name, shown>>

engine_vars == <<build, now, prio, end_plan_year, records, pc, result, VACCINES, calls>>
booster_vars == <<bs_in, bs_out>>
conv_vars == <<ym_in, ym_out>>
dose_vars == <<ds_in, ds_out>>
doses_vars == <<vd_in, vd_out>>
catalog_vars == <<threads, once_running, built>>
app_vars == <<active_profile, profiles, add_record, add_profile_name>>
view_vars == <<shown>>
rest_vars == <<catalog_vars, app_vars, view_vars>>

----------------------------------------------------------------------------
(* Outcomes of a call *)

Ok(v) == [status |-> "ok", why |-> "", val |-> v]
Err(why) == [status |-> "err", why |-> why, val |-> <<>>]
Panic(why) == [status |-> "panic", why |-> why, val |-> <<>>]
NotRun == [status |-> "none", why |-> "", val |-> <<>>]

(* The `?` operator and the unwinding of a panic: the rest of the function
   runs on the value of an Ok, anything else is the function's outcome. *)
AndThen(r, Rest(_)) == IF r.status = "ok" THEN Rest(r.val) ELSE r

(* Option<i16> *)
None == [some |-> FALSE, v |-> 0]
Some(x) == [some |-> TRUE, v |-> x]

----------------------------------------------------------------------------
(* Integer widths *)

I16Min == -32768
I16Max == 32767
InI16(x) == x >= I16Min /\ x <= I16Max
Wrap16(x) == ((x - I16Min) % 65536) + I16Min
SaturatingAdd16(a, b) ==
    IF a + b > I16Max THEN I16Max ELSE IF a + b < I16Min THEN I16Min ELSE a + b

(* Rust's / and % on signed integers truncate toward zero. *)
TruncDiv(a, b) == IF a >= 0 THEN a \div b ELSE -((-a) \div b)
TruncRem(a, b) == a - b * TruncDiv(a, b)

----------------------------------------------------------------------------
(* Data model *)

(* enum DoseKind { Dose(u8), Booster } *)
Dose(i) == [tag |-> "Dose", index |-> i]
Booster == [tag |-> "Booster", index |-> 0]
IsDose(kind) == kind.tag = "Dose"

(* enum DoseSchedule { Single, Repeated{number, interval},
   RepeatedRange{number, minimum, maximum} }.  `interval` holds the
   interval of Repeated and the minimum of RepeatedRange. *)
Single == [tag |-> "Single", number |-> 1, interval |-> 0, maximum |-> 0]
Repeated(number, interval) ==
    [tag |-> "Repeated", number |-> number, interval |-> interval, maximum |-> interval]
RepeatedRange(number, minimum, maximum) ==
    [tag |-> "RepeatedRange", number |-> number, interval |-> minimum, maximum |-> maximum]

(* enum BoosterSchedule { Seasonal, Years(i16), Lifetime } *)
Seasonal == [tag |-> "Seasonal", n |-> 0]
Years(n) == [tag |-> "Years", n |-> n]
Lifetime == [tag |-> "Lifetime", n |-> 0]

(* struct Vaccine, without the display-only fields treats and notes *)
Vaccine(name, initial, booster, recommended) ==
    [name |-> name, initial_schedule |-> initial, booster_schedule |-> booster,
     recommended |-> recommended]

(* Vaccine::get_vaccines: the catalog, a map from name to Vaccine *)
get_vaccines ==
    LET entries == {
            Vaccine("COVID-19", RepeatedRange(2, 1, 2), Seasonal, TRUE),
            Vaccine("Flu", Single, Seasonal, TRUE),
            Vaccine("Tdap", Repeated(3, 6), Years(10), TRUE),
            Vaccine("Mpox", RepeatedRange(2, 1, 6), Years(5), TRUE),
            Vaccine("Meningitis", Repeated(2, 6), Years(5), TRUE),
            Vaccine("MMR", Repeated(2, 5 * 12), Years(5), TRUE),
            Vaccine("Shinglex", RepeatedRange(2, 2, 6), Years(7), TRUE),
            Vaccine("PCV20", Repeated(2, 6), Lifetime, TRUE),
            Vaccine("Gardacil-9", Repeated(3, 6), Lifetime, TRUE),
            Vaccine("Hepatitis B", Single, Lifetime, TRUE),
            Vaccine("Hepatitis A", Repeated(2, 6), Lifetime, TRUE),
            Vaccine("Hepatitis A&B", Repeated(3, 6), Lifetime, FALSE),
            Vaccine("IPV", Repeated(4, 4), Lifetime, TRUE),
            Vaccine("Chickenpox", RepeatedRange(2, 1, 6), Lifetime, TRUE) }
    IN [name \in {e.name : e \in entries} |->
            CHOOSE e \in entries : e.name = name]

(* static VACCINES: OnceLock<HashMap<..>>: empty until the first call of
   get_vaccines, which stores the catalog; every call returns what is stored. *)
OnceLock_new == [set |-> FALSE, map |-> <<>>]
get_or_init(cell) == IF cell.set THEN cell ELSE [set |-> TRUE, map |-> get_vaccines]

(* struct VaccineRecord, without notes.  date is the record's date minus
   now, in ticks. *)
VaccineRecord(vaccine, date, kind) == [vaccine |-> vaccine, date |-> date, kind |-> kind]

(* struct VaccineAppointment *)
VaccineAppointment(vaccine, kind, year, month) ==
    [vaccine |-> vaccine, kind |-> kind, year |-> year, month |-> month]

----------------------------------------------------------------------------
(* Sequence helpers *)

Last(s) == s[Len(s)]

(* <[T]>::is_sorted over VaccineRecord: impl Ord for VaccineRecord compares
   the dates only. *)
is_sorted(recs) == \A i \in 1..(Len(recs) - 1) : recs[i].date <= recs[i + 1].date

(* Span::round(SpanRound::new().smallest(Unit::Month).relative(now)) then
   get_months(): a signed distance in ticks rounded to whole months, ties
   away from zero. *)
TicksPerMonth == 2
round_months(ticks) ==
    IF ticks >= 0
    THEN (2 * ticks + TicksPerMonth) \div (2 * TicksPerMonth)
    ELSE -((2 * (-ticks) + TicksPerMonth) \div (2 * TicksPerMonth))

----------------------------------------------------------------------------
(* impl DoseSchedule *)

(* A baseline series that spaces the doses of a RepeatedRange by its
   maximum *)
all_doses_by_maximum(ds) ==
    IF ds.tag = "Single"
    THEN << <<Dose(0), 0>> >>
    ELSE [i \in 1..ds.number |-> <<Dose(i - 1), (i - 1) * ds.maximum>>]

(* DoseSchedule::all_doses: the baseline series *)
DoseSchedule_all_doses(ds) ==
    IF ds.tag = "Single"
    THEN << <<Dose(0), 0>> >>
    ELSE [i \in 1..ds.number |-> <<Dose(i - 1), (i - 1) * ds.interval>>]

minimum_dose_interval(ds) == IF ds.tag = "Single" THEN 0 ELSE ds.interval

(* `&last.date - now` rounded to months and narrowed to i16 by try_into()?,
   then the assertion that the record is not in the future.  -last_dose_mo
   cannot be formed for i16::MIN: a debug build panics on the negation, a
   release build on the assertion that the offset is >= 0. *)
months_since(date, in_future) ==
    IF ~InI16(round_months(date)) THEN Err("TryFromIntError")
    ELSE IF ~(round_months(date) <= 0) THEN Panic(in_future)
    ELSE IF round_months(date) = I16Min THEN Panic("negation overflows or offset < 0")
    ELSE Ok(round_months(date))

(* The offset of the next dose or booster, `interval` months after the last *)
offset_after(last_dose_mo, interval) ==
    IF -last_dose_mo > interval THEN 0 ELSE interval + last_dose_mo

(* A shift that adds the offset of the next dose to the baseline offsets
   instead of moving the first required dose onto it *)
shift_doses_from_baseline(required_doses, next_dose_mo, min_dose_offset) ==
    Ok([i \in 1..Len(required_doses) |->
            <<required_doses[i][1], required_doses[i][2] + min_dose_offset>>])

(* The complex case of DoseSchedule::all_months: the required doses moved so
   that the first of them is min_dose_offset months from now *)
shift_doses(required_doses, next_dose_mo, min_dose_offset) ==
    IF ~(min_dose_offset >= 0) THEN Panic("assert min_dose_offset >= 0")
    ELSE IF \E i \in 1..Len(required_doses) :
                ~(required_doses[i][2] - next_dose_mo + min_dose_offset >= 0)
    THEN Panic("assert mo >= 0")
    ELSE Ok([i \in 1..Len(required_doses) |->
                <<required_doses[i][1],
                  required_doses[i][2] - next_dose_mo + min_dose_offset>>])

reschedule_doses(ds, dose_records, required_doses) ==
    IF required_doses = <<>> THEN Ok(required_doses)
    ELSE AndThen(months_since(Last(dose_records).date,
                              "dose record in future in dose schedule"),
                 LAMBDA last_dose_mo :
                    shift_doses(required_doses, required_doses[1][2],
                                offset_after(last_dose_mo, minimum_dose_interval(ds))))

(* DoseSchedule::all_months: the doses still needed, as (kind, month offset) *)
DoseSchedule_all_months(ds, dose_records) ==
    IF dose_records = <<>> THEN Ok(DoseSchedule_all_doses(ds))
    ELSE reschedule_doses(ds, dose_records,
            SelectSeq(DoseSchedule_all_doses(ds),
                      LAMBDA d : d[1] \notin {dose_records[i].kind : i \in 1..Len(dose_records)}))

----------------------------------------------------------------------------
(* impl BoosterSchedule *)

duration(bs) ==
    CASE bs.tag = "Seasonal" -> 12
      [] bs.tag = "Years" -> 12 * bs.n
      [] bs.tag = "Lifetime" -> 12 * 25

(* A stepping that stops one step late *)
RECURSIVE push_stepped_overrun(_, _, _)
push_stepped_overrun(start_mo, end_mo, step_y) ==
    IF start_mo > end_mo + 12 * step_y THEN <<>>
    ELSE << <<Booster, start_mo>> >>
            \o push_stepped_overrun(start_mo + 12 * step_y, end_mo, step_y)

(* fn push_stepped: (start_mo..=end_mo).step_by(12 * step_y), each pushed as
   a Booster.  The caller guarantees step_y > 0 (step_by panics on 0). *)
RECURSIVE push_stepped(_, _, _)
push_stepped(start_mo, end_mo, step_y) ==
    IF start_mo > end_mo THEN <<>>
    ELSE << <<Booster, start_mo>> >> \o push_stepped(start_mo + 12 * step_y, end_mo, step_y)

(* An anchor taken from the first record instead of the last *)
booster_anchor_from_first_record(bs, vaccine_records) ==
    IF ~is_sorted(vaccine_records) THEN Panic("assert vaccine_records.is_sorted()")
    ELSE IF vaccine_records = <<>>
    THEN Panic("no vaccine records and no scheduled last dose of initial series")
    ELSE AndThen(months_since(Head(vaccine_records).date,
                              "dose record in future in booster schedule"),
                 LAMBDA last_dose_mo : Ok(offset_after(last_dose_mo, duration(bs))))

(* The anchor of the boosters when no dose of the initial series is planned:
   the else branch of `let next_booster_mo = ...` *)
booster_anchor_from_records(bs, vaccine_records) ==
    IF ~is_sorted(vaccine_records) THEN Panic("assert vaccine_records.is_sorted()")
    ELSE IF vaccine_records = <<>>
    THEN Panic("no vaccine records and no scheduled last dose of initial series")
    ELSE AndThen(months_since(Last(vaccine_records).date,
                              "dose record in future in booster schedule"),
                 LAMBDA last_dose_mo :
                    IF ~(offset_after(last_dose_mo, duration(bs)) >= 0)
                    THEN Panic("assert offset >= 0")
                    ELSE Ok(offset_after(last_dose_mo, duration(bs))))

(* A Seasonal arm that steps from the anchor as it is *)
seasonal_anchor_uncorrected(next_booster_mo) == next_booster_mo

(* The Seasonal arm's correction of the anchor *)
seasonal_anchor(next_booster_mo) ==
    IF next_booster_mo < 8 THEN 8
    ELSE IF next_booster_mo > 10 THEN 12 + 8
    ELSE next_booster_mo

(* A booster every year, whatever the schedule *)
boosters_every_year(bs, next_booster_mo, limit_mo) ==
    Ok(push_stepped(next_booster_mo, limit_mo, 1))

(* The `match self` of BoosterSchedule::all_months *)
boosters_from(bs, next_booster_mo, limit_mo) ==
    CASE bs.tag = "Seasonal" ->
            Ok(push_stepped(seasonal_anchor(next_booster_mo), limit_mo, 1))
      [] bs.tag = "Years" ->
            IF bs.n < 0 THEN Err("TryFromIntError")
            ELSE IF bs.n = 0 THEN Panic("assertion failed: step != 0")
            ELSE Ok(push_stepped(next_booster_mo, limit_mo, bs.n))
      [] bs.tag = "Lifetime" ->
            Ok(push_stepped(next_booster_mo, limit_mo, 25))

(* BoosterSchedule::all_months *)
BoosterSchedule_all_months(bs, limit_mo, planned_last_dose_mo, vaccine_records) ==
    AndThen(IF planned_last_dose_mo.some
            THEN Ok(planned_last_dose_mo.v + duration(bs))
            ELSE booster_anchor_from_records(bs, vaccine_records),
            LAMBDA next_booster_mo : boosters_from(bs, next_booster_mo, limit_mo))

----------------------------------------------------------------------------
(* impl VaccineAppointment *)

(* A conversion that forgets to move to 0-based months *)
mo_to_ym_one_based(bld, at, mo) ==
    LET month_offset == at.month + mo
    IN  Ok([year |-> SaturatingAdd16(at.year, TruncDiv(month_offset, 12)),
            month |-> TruncRem(month_offset, 12) + 1])

(* VaccineAppointment::mo_to_ym.  The sums are i16: in a debug build an
   overflow panics, in a release build it wraps. *)
mo_to_ym(bld, at, mo) ==
    LET sum == at.month + mo
        overflow == ~InI16(sum) \/ ~InI16(Wrap16(sum) - 1)
        month_offset == Wrap16(Wrap16(sum) - 1)
        year_offset == TruncDiv(month_offset, 12)
        month == TruncRem(month_offset, 12) + 1
    IN  IF overflow /\ bld = "debug" THEN Panic("attempt to add with overflow")
        ELSE IF ~(month \in 1..12) THEN Panic("assert month in 1..=12")
        ELSE Ok([year |-> SaturatingAdd16(at.year, year_offset), month |-> month])

(* impl Ord for VaccineAppointment: a <= b, by year then month *)
appointment_le(a, b) ==
    IF a.year # b.year THEN a.year < b.year ELSE a.month <= b.month

(* <[T]>::sort: a stable sort.  Each element goes behind every element that
   does not compare greater than it. *)
(* A sort that puts an element in front of its equals: not stable *)
RECURSIVE sort_insert_unstable(_, _)
sort_insert_unstable(sorted, a) ==
    IF sorted = <<>> THEN <<a>>
    ELSE IF appointment_le(a, Head(sorted))
         THEN <<a>> \o sorted
         ELSE <<Head(sorted)>> \o sort_insert_unstable(Tail(sorted), a)

RECURSIVE sort_insert(_, _)
sort_insert(sorted, a) ==
    IF sorted = <<>> THEN <<a>>
    ELSE IF appointment_le(Head(sorted), a)
         THEN <<Head(sorted)>> \o sort_insert(Tail(sorted), a)
         ELSE <<a>> \o sorted

RECURSIVE sort_from(_, _)
sort_from(sorted, rest) ==
    IF rest = <<>> THEN sorted
    ELSE sort_from(sort_insert(sorted, Head(rest)), Tail(rest))

(* A schedule that returns the appointments as pushed *)
sort_skipped(appointments) == appointments

sort(appointments) == sort_from(<<>>, appointments)

(* Vec<VaccineRecord>::sort of the record editor (app.rs), stable, by date:
   impl Ord for VaccineRecord *)
RECURSIVE insert_record(_, _)
insert_record(sorted, r) ==
    IF sorted = <<>> THEN <<r>>
    ELSE IF Head(sorted).date <= r.date
         THEN <<Head(sorted)>> \o insert_record(Tail(sorted), r)
         ELSE <<r>> \o sorted

RECURSIVE sort_records(_)
sort_records(recs) ==
    IF recs = <<>> THEN <<>>
    ELSE insert_record(sort_records(SubSeq(recs, 1, Len(recs) - 1)), Last(recs))

----------------------------------------------------------------------------
(* impl Vaccine *)

(* A caller that never tells the booster computation of a planned dose *)
last_offset_dropped(doses) == None

(* initial.last().map(|(_, v)| *v) *)
last_offset(doses) == IF doses = <<>> THEN None ELSE Some(Last(doses)[2])

(* Vaccine::all_doses: the remaining doses, then the boosters *)
Vaccine_all_doses(vaccine, vaccine_records, end_plan_mo) ==
    AndThen(DoseSchedule_all_months(vaccine.initial_schedule,
                                    SelectSeq(vaccine_records, LAMBDA r : IsDose(r.kind))),
            LAMBDA initial :
                AndThen(BoosterSchedule_all_months(vaccine.booster_schedule, end_plan_mo,
                                                   last_offset(initial), vaccine_records),
                        LAMBDA booster : Ok(initial \o booster)))

(* VaccineAppointment::from_month_offset for each (kind, dose_mo), in order *)
RECURSIVE push_appointments(_, _, _, _)
push_appointments(bld, at, name, doses) ==
    IF doses = <<>> THEN Ok(<<>>)
    ELSE AndThen(mo_to_ym(bld, at, Head(doses)[2]),
                 LAMBDA ym :
                    AndThen(push_appointments(bld, at, name, Tail(doses)),
                            LAMBDA rest :
                                Ok(<<VaccineAppointment(name, Head(doses)[1],
                                                        ym.year, ym.month)>> \o rest)))

(* A pass that hands the vaccine the records of every vaccine *)
schedule_vaccine_all_records(bld, at, vaccine_name, limit_mo, all_records) ==
    IF vaccine_name \notin DOMAIN get_vaccines
    THEN Panic("unwrap on None: unknown vaccine")
    ELSE AndThen(Vaccine_all_doses(get_vaccines[vaccine_name], all_records, limit_mo),
                 LAMBDA doses : push_appointments(bld, at, vaccine_name, doses))

(* One pass of the body of `for vaccine_name in prio`: the appointments of
   one vaccine, in the order they are pushed *)
schedule_vaccine(bld, at, vaccine_name, limit_mo, all_records) ==
    IF vaccine_name \notin DOMAIN get_vaccines
    THEN Panic("unwrap on None: unknown vaccine")
    ELSE AndThen(Vaccine_all_doses(get_vaccines[vaccine_name],
                                   SelectSeq(all_records,
                                             LAMBDA r : r.vaccine = get_vaccines[vaccine_name].name),
                                   limit_mo),
                 LAMBDA doses : push_appointments(bld, at, vaccine_name, doses))

(* The loop of Vaccine::schedule: the appointments of every vaccine of prio,
   concatenated in prio order; the first failure ends the call *)
RECURSIVE schedule_loop(_, _, _, _, _)
schedule_loop(bld, at, names, limit_mo, all_records) ==
    IF names = <<>> THEN Ok(<<>>)
    ELSE AndThen(schedule_vaccine(bld, at, Head(names), limit_mo, all_records),
                 LAMBDA one :
                    AndThen(schedule_loop(bld, at, Tail(names), limit_mo, all_records),
                            LAMBDA rest : Ok(one \o rest)))

(* limit_mo = (end_plan_year - current_year) * 12, in i16 *)
limit_months(bld, at, plan_year) ==
    IF (~InI16(plan_year - at.year) \/ ~InI16(Wrap16(plan_year - at.year) * 12))
       /\ bld = "debug"
    THEN Panic("attempt to multiply with overflow")
    ELSE Ok(Wrap16(Wrap16(plan_year - at.year) * 12))

(* A schedule whose appointments vector outlives the call: every call adds
   to what the call before it returned *)
Vaccine_schedule_keeping_appointments(bld, at, names, plan_year, all_records) ==
    AndThen(limit_months(bld, at, plan_year),
            LAMBDA limit_mo :
                AndThen(schedule_loop(bld, at, names, limit_mo, all_records),
                        LAMBDA appointments :
                            Ok(sort((IF calls # <<>> /\ Last(calls).result.status = "ok"
                                     THEN Last(calls).result.val ELSE <<>>)
                                    \o appointments))))

(* Vaccine::schedule *)
Vaccine_schedule(bld, at, names, plan_year, all_records) ==
    AndThen(limit_months(bld, at, plan_year),
            LAMBDA limit_mo :
                AndThen(schedule_loop(bld, at, names, limit_mo, all_records),
                        LAMBDA appointments : Ok(sort(appointments))))

----------------------------------------------------------------------------
(* The inputs of a call of Vaccine::schedule.  Builds is what a sum that
   leaves i16 does; the engine's own sums stay far inside i16 for the inputs
   below, where the two builds agree (BuildsAgree), so the engine is run as
   a debug build and the build is drawn where it matters, in ConvSpec. *)

NowYear == 2025
MaxHorizon == 1
MaxPrio == 2
MaxRecords == 2

Builds == {"debug", "release"}
NowMonths == {1, 6, 12}
EndPlanYears == (NowYear - 1)..(NowYear + MaxHorizon)
PrioNames == {"Flu", "Meningitis", "Tdap", "Bogus"}
RecordNames == {"Flu", "Meningitis"}
DoseRecordKinds == {Dose(0), Dose(1)}
(* Ticks from now: 61 months ago, 5 months ago, 1 month ahead *)
RecordDates == {-122, -10, 2}
BoosterDates == {-10}
RecordUniverse ==
    {VaccineRecord(v, d, k) : v \in RecordNames, d \in RecordDates, k \in DoseRecordKinds}
        \cup {VaccineRecord(v, d, Booster) : v \in RecordNames, d \in BoosterDates}

SeqsUpTo(S, n) == UNION {[1..k -> S] : k \in 0..n}
NoRepeat(s) == \A i, j \in 1..Len(s) : i # j => s[i] # s[j]
(* The enabled vaccines of a profile: every name at most once *)
PrioLists == {s \in SeqsUpTo(PrioNames, MaxPrio) : NoRepeat(s)}

----------------------------------------------------------------------------
(* Specification of the engine: the caller's inputs, then the call *)

BoosterIdle == bs_in = <<>> /\ bs_out = NotRun
ConvIdle == ym_in = <<>> /\ ym_out = NotRun
DoseIdle == ds_in = <<>> /\ ds_out = NotRun
DosesIdle == vd_in = <<>> /\ vd_out = NotRun
CatalogIdle == threads = <<>> /\ once_running = FALSE /\ built = 0
(* impl Default for VaccineHelperApp: one profile, "Default", without
   records; no record and no profile name being entered *)
AppIdle ==
    /\ active_profile = "Default"
    /\ profiles = [name \in {"Default"} |-> <<>>]
    /\ add_record = None
    /\ add_profile_name = ""
ViewIdle == shown = <<>>
RestIdle == CatalogIdle /\ AppIdle /\ ViewIdle
EngineIdle ==
    /\ build = "debug"
    /\ now = [year |-> NowYear, month |-> 1]
    /\ prio = <<>>
    /\ end_plan_year = NowYear
    /\ records = <<>>
    /\ pc = "idle"
    /\ result = NotRun
    /\ VACCINES = OnceLock_new
    /\ calls = <<>>

(* One call of Vaccine::schedule as the caller sees it: what went in, what
   came out, and the records after it *)
Call(at, names, plan_year, all_records, outcome, records_after) ==
    [now |-> at, prio |-> names, end_plan_year |-> plan_year, records |-> all_records,
     result |-> outcome, records_after |-> records_after]

Init ==
    /\ build = "debug"
    /\ now \in [year : {NowYear}, month : NowMonths]
    /\ prio \in PrioLists
    /\ end_plan_year \in EndPlanYears
    /\ records \in SeqsUpTo(RecordUniverse, MaxRecords)
    /\ pc = "call"
    /\ result = NotRun
    /\ VACCINES = OnceLock_new
    /\ calls = <<>>
    /\ BoosterIdle
    /\ ConvIdle
    /\ DoseIdle
    /\ DosesIdle
    /\ RestIdle

Schedule ==
    /\ pc = "call"
    /\ result' = Vaccine_schedule(build, now, prio, end_plan_year, records)
    /\ pc' = "done"
    /\ VACCINES' = get_or_init(VACCINES)
    /\ UNCHANGED <<build, now, prio, end_plan_year, records>>
    /\ calls' = Append(calls, Call(now, prio, end_plan_year, records, result', records'))
    /\ UNCHANGED <<booster_vars, conv_vars, dose_vars, doses_vars>>
    /\ UNCHANGED rest_vars

Next == Schedule

Spec == Init /\ [][Next]_vars

----------------------------------------------------------------------------
(* Properties of Vaccine::schedule, checked under Spec *)

Done == pc = "done"
Returned == pc = "done" /\ result.status = "ok"

(* The month offset of the planning limit, and the appointments in the
   order the loop pushed them, before the sort *)
LimitMo == limit_months(build, now, end_plan_year).val
Pushed == schedule_loop(build, now, prio, LimitMo, records).val

YmLe(a, b) == a.year < b.year \/ (a.year = b.year /\ a.month <= b.month)
SameYm(a, b) == a.year = b.year /\ a.month = b.month
SortedByYm(appts) == \A i \in 1..(Len(appts) - 1) : YmLe(appts[i], appts[i + 1])
PrioIndex(name) == CHOOSE i \in 1..Len(prio) : prio[i] = name
KindRank(kind) == IF IsDose(kind) THEN kind.index ELSE 256

(* The sums of the engine never leave i16 for the inputs of Spec *)
BuildsAgree ==
    Done => result = Vaccine_schedule("release", now, prio, end_plan_year, records)

(* C1: the list Vaccine::schedule returns is sorted ascending by
   (year, month): every appointment is at or before the one after it. *)
C1_SortedByYearMonth == Returned => SortedByYm(result.val)

(* C1's case: the loop pushed the appointments out of order and the call
   returned them. *)
C1_Witness == Returned /\ Len(result.val) >= 3 /\ ~SortedByYm(Pushed)

(* C2: appointments of the same (year, month) keep the order in which they
   were pushed: the returned appointments of each month are the pushed ones
   of that month in the same order, so an earlier vaccine of prio precedes a
   later one, and within one vaccine doses come by index, then boosters. *)
C2_TiesKeepPushedOrder ==
    Returned =>
        LET pushed == Pushed
            got == result.val
        IN  /\ \A k \in 1..Len(got) :
                  SelectSeq(got, LAMBDA a : SameYm(a, got[k]))
                    = SelectSeq(pushed, LAMBDA a : SameYm(a, got[k]))
            /\ \A i, j \in 1..Len(got) :
                  (i < j /\ SameYm(got[i], got[j])) =>
                     \/ PrioIndex(got[i].vaccine) < PrioIndex(got[j].vaccine)
                     \/ /\ got[i].vaccine = got[j].vaccine
                        /\ KindRank(got[i].kind) <= KindRank(got[j].kind)

(* C2's case: two vaccines have an appointment in the same month, and the
   sort had to move an appointment past them. *)
C2_Witness ==
    /\ Returned
    /\ result.val # Pushed
    /\ \E i, j \in 1..Len(result.val) :
          /\ i < j
          /\ SameYm(result.val[i], result.val[j])
          /\ result.val[i].vaccine # result.val[j].vaccine

(* C3: a name of prio that has no catalog entry makes Vaccine::schedule
   return an UnknownVaccine error: no panic, no skipped name, no list. *)
C3_UnknownVaccineIsAnError ==
    (Done /\ \E i \in 1..Len(prio) : prio[i] \notin DOMAIN get_vaccines)
        => result.status = "err"

(* C4: a record of an enabled vaccine dated one or more whole months after
   now makes Vaccine::schedule return an InvalidRecord error: no panic. *)
C4_FutureRecordIsAnError ==
    (/\ Done
     /\ \A i \in 1..Len(prio) : prio[i] \in DOMAIN get_vaccines
     /\ \E i \in 1..Len(records), j \in 1..Len(prio) :
           records[i].vaccine = prio[j] /\ records[i].date >= TicksPerMonth)
        => result.status = "err"

(* C5: every Booster appointment of a vaccine with the Seasonal booster
   schedule is in the fall window that starts in September (September,
   October or November), whatever the month of now. *)
C5_SeasonalBoostersInFall ==
    Returned =>
        \A k \in 1..Len(result.val) :
            (/\ result.val[k].kind = Booster
             /\ get_vaccines[result.val[k].vaccine].booster_schedule = Seasonal)
                => result.val[k].month \in 9..11

(* C7: when end_plan_year is before the year of now, Vaccine::schedule
   returns no appointments at all. *)
C7_PastHorizonGivesNothing ==
    (Returned /\ end_plan_year < now.year) => result.val = <<>>

(* C8: every appointment Vaccine::schedule returns, dose or booster, has
   year <= end_plan_year, when end_plan_year >= the year of now. *)
C8_WithinPlanningHorizon ==
    (Returned /\ end_plan_year >= now.year) =>
        \A k \in 1..Len(result.val) : result.val[k].year <= end_plan_year

(* C9: for any order of the records, Vaccine::schedule completes and returns
   what it returns for the same records sorted by date. *)
C9_RecordOrderIsIrrelevant ==
    LET sorted == Vaccine_schedule(build, now, prio, end_plan_year, sort_records(records))
    IN  (Done /\ sorted.status = "ok") => result = sorted

----------------------------------------------------------------------------
(* Specification of BoosterSchedule::all_months called on its own, as the
   tests of schedule.rs call it *)

MaxLimit == 26
MaxPlanned == 14

BoosterSchedules == {Seasonal, Years(5), Years(7), Years(10), Lifetime}
LimitMonths == (-2)..MaxLimit \cup {12 * 25, 12 * 50}
(* Planned last doses later than the first September window *)
LatePlannedMonths == {20, 25}
PlannedMonths == {None} \cup {Some(m) : m \in (0..MaxPlanned) \cup LatePlannedMonths}
(* Ticks from now: 310, 115, 36, 12, 7, 3.5, 2 and 1 months ago, now *)
BoosterRecordDates == {-620, -230, -72, -24, -14, -7, -4, -2, 0}
BoosterRecordLists ==
    SeqsUpTo({VaccineRecord("Flu", d, Booster) : d \in BoosterRecordDates}, MaxRecords)

BoosterInit ==
    /\ bs_in \in [bs : BoosterSchedules, limit_mo : LimitMonths,
                  planned_last_dose_mo : PlannedMonths,
                  vaccine_records : BoosterRecordLists]
    /\ bs_out = NotRun
    /\ EngineIdle
    /\ ConvIdle
    /\ DoseIdle
    /\ DosesIdle
    /\ RestIdle

BoosterAllMonths ==
    /\ bs_out = NotRun
    /\ bs_in # <<>>
    /\ bs_out' = BoosterSchedule_all_months(bs_in.bs, bs_in.limit_mo,
                                            bs_in.planned_last_dose_mo,
                                            bs_in.vaccine_records)
    /\ UNCHANGED <<bs_in, engine_vars, conv_vars, dose_vars, doses_vars>>
    /\ UNCHANGED rest_vars

BoosterNext == BoosterAllMonths

BoosterSpec == BoosterInit /\ [][BoosterNext]_vars

----------------------------------------------------------------------------
(* Specification of VaccineAppointment::mo_to_ym called on its own, as
   test_mo_to_ym calls it *)

MaxOffset == 1300
EdgeWidth == 24

ConvYears == {-9999, NowYear, 9999}
ConvOffsets ==
    ((-MaxOffset)..MaxOffset)
        \cup (I16Min..(I16Min + EdgeWidth)) \cup ((I16Max - EdgeWidth)..I16Max)

ConvInit ==
    /\ ym_in \in [build : Builds, now : [year : ConvYears, month : 1..12],
                  mo : ConvOffsets]
    /\ ym_out = NotRun
    /\ EngineIdle
    /\ BoosterIdle
    /\ DoseIdle
    /\ DosesIdle
    /\ RestIdle

Convert ==
    /\ ym_out = NotRun
    /\ ym_in # <<>>
    /\ ym_out' = mo_to_ym(ym_in.build, ym_in.now, ym_in.mo)
    /\ UNCHANGED <<ym_in, engine_vars, booster_vars, dose_vars, doses_vars>>
    /\ UNCHANGED rest_vars

ConvNext == Convert

ConvSpec == ConvInit /\ [][ConvNext]_vars

----------------------------------------------------------------------------
(* Properties of BoosterSchedule::all_months, checked under BoosterSpec *)

BoosterReturned == bs_out.status = "ok"
BoosterOffsets == {bs_out.val[i][2] : i \in 1..Len(bs_out.val)}

(* C6, as stated: every offset BoosterSchedule::all_months returns is
   strictly less than limit_mo. *)
C6_OffsetsBelowLimit == BoosterReturned => \A mo \in BoosterOffsets : mo < bs_in.limit_mo

(* C6, amended: every offset BoosterSchedule::all_months returns is less
   than or equal to limit_mo; the offset limit_mo itself is emitted when the
   stepping lands on it. *)
C6_OffsetsUpToLimit == BoosterReturned => \A mo \in BoosterOffsets : mo <= bs_in.limit_mo

(* C6's case: the stepping lands on limit_mo and that offset is returned. *)
C6_Witness == BoosterReturned /\ Len(bs_out.val) >= 2 /\ bs_in.limit_mo \in BoosterOffsets

----------------------------------------------------------------------------
(* Properties of mo_to_ym, checked under ConvSpec *)

Converted == ym_out.status # "none"
MonthIndex(year, month) == 12 * year + (month - 1)

(* C10: for an offset mo >= 0 of the planning range, mo_to_ym returns
   (y, m) with 1 <= m <= 12 that is exactly mo months after the reference
   (Y, M): 12*y + (m-1) = 12*Y + (M-1) + mo. *)
C10_ConversionIsExact ==
    (Converted /\ ym_in.mo \in 0..MaxOffset) =>
        /\ ym_out.status = "ok"
        /\ ym_out.val.month \in 1..12
        /\ MonthIndex(ym_out.val.year, ym_out.val.month)
             = MonthIndex(ym_in.now.year, ym_in.now.month) + ym_in.mo

(* C10's case: an offset that crosses December and lands in a later year. *)
C10_Witness ==
    /\ Converted
    /\ ym_in.mo \in 1..11
    /\ ym_out.status = "ok"
    /\ ym_out.val.year = ym_in.now.year + 1
    /\ ym_out.val.month < ym_in.now.month

(* C11: for a negative offset mo, mo_to_ym does not panic: it returns (y, m)
   with 1 <= m <= 12 that is exactly -mo months before the reference
   (Y, M), the year moved back accordingly. *)
C11_NegativeOffsetsConvert ==
    (Converted /\ ym_in.mo \in (-MaxOffset)..(-1)) =>
        /\ ym_out.status = "ok"
        /\ ym_out.val.month \in 1..12
        /\ MonthIndex(ym_out.val.year, ym_out.val.month)
             = MonthIndex(ym_in.now.year, ym_in.now.month) + ym_in.mo

(* The year a conversion without overflow gives, clamped to i16 *)
ClampedYear(at, mo) ==
    SaturatingAdd16(0, (MonthIndex(at.year, at.month) + mo) \div 12)

(* C12: for every offset mo >= 0 of i16, up to i16::MAX, and every reference
   year and month, mo_to_ym completes: no sum leaves i16 on the way (no
   overflow panic, no wrapped value), the month is in 1..12 and the year is
   the exact one clamped to i16. *)
C12_YearSaturatesWithoutOverflow ==
    (Converted /\ ym_in.mo >= 0) =>
        /\ ym_out.status = "ok"
        /\ ym_out.val.month \in 1..12
        /\ ym_out.val.year = ClampedYear(ym_in.now, ym_in.mo)

----------------------------------------------------------------------------
(* Specification of DoseSchedule::all_months called on its own, as
   test_dosing_schedule_with_records calls it: every dose schedule of the
   catalog, with dose records of any index, in any order *)

MaxDoseRecords == 2
MaxDoseIndex == 4

DoseSchedules == {get_vaccines[name].initial_schedule : name \in DOMAIN get_vaccines}
(* Ticks from now: 32768 months ago (the months are i16::MIN), 61, 7 and 5
   months ago, now, 1 month ahead *)
DoseDates == {-65536, -122, -14, -10, 0, 2}
DoseRecordUniverse ==
    {VaccineRecord("Tdap", d, Dose(k)) : d \in DoseDates, k \in 0..MaxDoseIndex}

DoseInit ==
    /\ ds_in \in [ds : DoseSchedules,
                  dose_records : SeqsUpTo(DoseRecordUniverse, MaxDoseRecords)]
    /\ ds_out = NotRun
    /\ EngineIdle
    /\ BoosterIdle
    /\ ConvIdle
    /\ DosesIdle
    /\ RestIdle

DoseAllMonths ==
    /\ ds_out = NotRun
    /\ ds_in # <<>>
    /\ ds_out' = DoseSchedule_all_months(ds_in.ds, ds_in.dose_records)
    /\ UNCHANGED <<ds_in, engine_vars, booster_vars, conv_vars, doses_vars>>
    /\ UNCHANGED rest_vars

DoseNext == DoseAllMonths

DoseSpec == DoseInit /\ [][DoseNext]_vars

----------------------------------------------------------------------------
(* Properties of DoseSchedule::all_months, checked under DoseSpec *)

DoseApplied == ds_out.status # "none"
Max(a, b) == IF a >= b THEN a ELSE b

(* The dose indices of the records, the baseline doses that are not among
   them, and the whole months from the last dose record to now *)
RecordedKinds == {ds_in.dose_records[i].kind : i \in 1..Len(ds_in.dose_records)}
MissingDoses ==
    SelectSeq(DoseSchedule_all_doses(ds_in.ds), LAMBDA d : d[1] \notin RecordedKinds)
ElapsedMonths == -round_months(Last(ds_in.dose_records).date)

(* C14: with a dose record and a dose still missing, the last dose record
   being 0 to 32767 months old, DoseSchedule::all_months returns exactly the
   baseline doses whose index is not in the records, the first at offset
   max(0, min_interval - months elapsed since the last dose record), every
   later one as far from the first as in the baseline. *)
C14_MissingDosesShifted ==
    (/\ DoseApplied
     /\ ds_in.dose_records # <<>>
     /\ MissingDoses # <<>>
     /\ ElapsedMonths \in 0..I16Max) =>
        /\ ds_out.status = "ok"
        /\ Len(ds_out.val) = Len(MissingDoses)
        /\ \A i \in 1..Len(MissingDoses) :
              /\ ds_out.val[i][1] = MissingDoses[i][1]
              /\ ds_out.val[i][2] =
                    Max(0, ds_in.ds.interval - ElapsedMonths)
                        + (MissingDoses[i][2] - MissingDoses[1][2])

(* C14's case: the last dose is more recent than the minimum interval, so
   the next dose is not due yet, and a later dose follows it; a dose index
   before the first missing one is in the records. *)
C14_Witness ==
    /\ ds_out.status = "ok"
    /\ ds_in.dose_records # <<>>
    /\ Len(ds_out.val) >= 2
    /\ ds_out.val[1][2] > 0
    /\ ds_out.val[1][1] # Dose(0)

(* C15: when no dose record is dated in the future, whatever dose indices
   the records carry, DoseSchedule::all_months does not panic (neither
   assertion fails) and every offset it returns is >= 0. *)
C15_OffsetsNeverNegative ==
    (/\ DoseApplied
     /\ \A i \in 1..Len(ds_in.dose_records) : ds_in.dose_records[i].date <= 0) =>
        /\ ds_out.status # "panic"
        /\ ds_out.status = "ok" =>
              \A i \in 1..Len(ds_out.val) : ds_out.val[i][2] >= 0

----------------------------------------------------------------------------
(* Specification of Vaccine::all_doses called on its own: every vaccine of
   the catalog with records of that vaccine, doses and boosters, in any
   order *)

MaxVaccineRecords == 3
MaxRecordedDose == 2

(* Ticks from now: 61 months ago, 5 months ago *)
VaccineRecordDates == {-122, -10}
VaccineRecordKinds == {Dose(k) : k \in 0..MaxRecordedDose} \cup {Booster}
EndPlanMonths == {0, 12, 12 * 5, 12 * 25}
RecordsOf(name) ==
    SeqsUpTo({VaccineRecord(name, d, k) : d \in VaccineRecordDates, k \in VaccineRecordKinds},
             MaxVaccineRecords)

DosesInit ==
    /\ \E name \in DOMAIN get_vaccines :
          vd_in \in [vaccine : {get_vaccines[name]}, vaccine_records : RecordsOf(name),
                     end_plan_mo : EndPlanMonths]
    /\ vd_out = NotRun
    /\ EngineIdle
    /\ BoosterIdle
    /\ ConvIdle
    /\ DoseIdle
    /\ RestIdle

AllDoses ==
    /\ vd_out = NotRun
    /\ vd_in # <<>>
    /\ vd_out' = Vaccine_all_doses(vd_in.vaccine, vd_in.vaccine_records, vd_in.end_plan_mo)
    /\ UNCHANGED <<vd_in, engine_vars, booster_vars, conv_vars, dose_vars>>
    /\ UNCHANGED rest_vars

DosesNext == AllDoses

DosesSpec == DosesInit /\ [][DosesNext]_vars

----------------------------------------------------------------------------
(* Properties of Vaccine::all_doses, checked under DosesSpec *)

DosesReturned == vd_out.status = "ok"
DoseRecordsIn == SelectSeq(vd_in.vaccine_records, LAMBDA r : IsDose(r.kind))
DosesOut == SelectSeq(vd_out.val, LAMBDA d : IsDose(d[1]))
OffsetsOf(doses) == [i \in 1..Len(doses) |-> doses[i][2]]

(* The number of doses of a series and the interval between two of them:
   the interval of Repeated, the minimum of RepeatedRange *)
SeriesLength(ds) == IF ds.tag = "Single" THEN 1 ELSE ds.number
SeriesInterval(ds) == IF ds.tag = "Single" THEN 0 ELSE ds.interval

(* C13: with no dose record of the vaccine, also when it has Booster
   records, the doses returned are exactly the baseline series:
   (Dose(i), i * interval) for i in 0..number, the interval of RepeatedRange
   being its minimum, and the one pair (Dose(0), 0) for Single.  Tdap,
   Repeated(3, 6), gives 0, 6, 12 and Mpox, RepeatedRange(2, 1, 6), 0, 1. *)
C13_NoDoseRecordsGiveBaseline ==
    (vd_out.status # "none" /\ DoseRecordsIn = <<>>) =>
        /\ vd_out.status = "ok"
        /\ Len(DosesOut) = SeriesLength(vd_in.vaccine.initial_schedule)
        /\ \A i \in 1..Len(DosesOut) :
              DosesOut[i] = <<Dose(i - 1),
                              (i - 1) * SeriesInterval(vd_in.vaccine.initial_schedule)>>
        /\ vd_in.vaccine.name = "Tdap" => OffsetsOf(DosesOut) = <<0, 6, 12>>
        /\ vd_in.vaccine.name = "Mpox" => OffsetsOf(DosesOut) = <<0, 1>>
        /\ vd_in.vaccine.name = "Flu" => DosesOut = << <<Dose(0), 0>> >>

(* C13's case: the vaccine has records, all of them boosters, and its
   series is a RepeatedRange whose minimum and maximum differ. *)
C13_Witness ==
    /\ DosesReturned
    /\ Len(vd_in.vaccine_records) >= 2
    /\ DoseRecordsIn = <<>>
    /\ vd_in.vaccine.initial_schedule.tag = "RepeatedRange"
    /\ Len(DosesOut) = 2

(* Every dose index of the initial series is in the records *)
SeriesComplete ==
    \A i \in 0..(SeriesLength(vd_in.vaccine.initial_schedule) - 1) :
        \E j \in 1..Len(vd_in.vaccine_records) : vd_in.vaccine_records[j].kind = Dose(i)

(* The booster anchor off the last record, and what the Seasonal schedule
   makes of it: September (8) if earlier, next September (20) if later than
   November (10) *)
AnchorOffLastRecord ==
    Max(0, duration(vd_in.vaccine.booster_schedule)
              + round_months(Last(vd_in.vaccine_records).date))
FirstBoosterExpected ==
    IF vd_in.vaccine.booster_schedule # Seasonal THEN AnchorOffLastRecord
    ELSE IF AnchorOffLastRecord < 8 THEN 8
    ELSE IF AnchorOffLastRecord > 10 THEN 20
    ELSE AnchorOffLastRecord

(* C16: when the records hold every dose index of the initial series,
   Vaccine::all_doses returns no Dose, only Boosters, the first of them
   anchored off the last record: at max(0, duration - months elapsed since
   that record), moved to September for a Seasonal schedule; there is no
   booster only if that offset is past the planning limit. *)
C16_CompleteSeriesGivesBoostersOnly ==
    (DosesReturned /\ SeriesComplete) =>
        /\ \A i \in 1..Len(vd_out.val) : vd_out.val[i][1] = Booster
        /\ vd_out.val # <<>> => vd_out.val[1][2] = FirstBoosterExpected
        /\ vd_out.val = <<>> <=> FirstBoosterExpected > vd_in.end_plan_mo

(* C16's case: a complete series followed by a booster record 5 months ago,
   after a dose 61 months ago; the next booster is due in the future. *)
C16_Witness ==
    /\ DosesReturned
    /\ SeriesComplete
    /\ Len(vd_in.vaccine_records) >= 2
    /\ Last(vd_in.vaccine_records).kind = Booster
    /\ Head(vd_in.vaccine_records).date < Last(vd_in.vaccine_records).date
    /\ vd_out.val # <<>>
    /\ vd_out.val[1][2] > 0

----------------------------------------------------------------------------
(* Properties of the Years(n) and Lifetime schedules and of the unanchored
   call, checked under BoosterSpec *)

(* The months between two boosters: 12n for Years(n), 300 for Lifetime *)
BoosterInterval == IF bs_in.bs.tag = "Years" THEN 12 * bs_in.bs.n ELSE 300

(* The date of the most recent record *)
MostRecentDate ==
    CHOOSE d \in {bs_in.vaccine_records[i].date : i \in 1..Len(bs_in.vaccine_records)} :
        \A i \in 1..Len(bs_in.vaccine_records) : bs_in.vaccine_records[i].date <= d

FirstBoosterOffset ==
    IF bs_in.planned_last_dose_mo.some
    THEN bs_in.planned_last_dose_mo.v + BoosterInterval
    ELSE Max(0, BoosterInterval + round_months(MostRecentDate))

(* C17: for Years(n) and Lifetime the first booster is at
   planned_last_dose_mo + duration when a dose is planned, otherwise at
   max(0, duration - months elapsed since the most recent record); every
   following booster is exactly duration months (12n, 300 for Lifetime)
   after the one before it, and nothing else is returned. *)
C17_BoostersStepByDuration ==
    (BoosterReturned /\ bs_in.bs # Seasonal) =>
        /\ \A i \in 1..Len(bs_out.val) :
              bs_out.val[i] = <<Booster, FirstBoosterOffset + (i - 1) * BoosterInterval>>
        /\ bs_out.val = <<>> <=> FirstBoosterOffset > bs_in.limit_mo

(* C17's case: no dose is planned, the most recent of two records is
   younger than the interval, and at least two boosters follow. *)
C17_Witness ==
    /\ BoosterReturned
    /\ bs_in.bs # Seasonal
    /\ ~bs_in.planned_last_dose_mo.some
    /\ Len(bs_in.vaccine_records) >= 2
    /\ Len(bs_out.val) >= 2
    /\ bs_out.val[1][2] > 0

(* C18: BoosterSchedule::all_months called with no planned dose and no
   record returns an UnanchoredBooster error to its caller: it does not
   panic and returns no list. *)
C18_UnanchoredBoosterIsAnError ==
    (/\ bs_out.status # "none"
     /\ ~bs_in.planned_last_dose_mo.some
     /\ bs_in.vaccine_records = <<>>) => bs_out.status = "err"

----------------------------------------------------------------------------
(* Specification of the caller that schedules again and again: the
   application recomputes the schedule on every update, after the user may
   have enabled, disabled or reordered vaccines, moved the end plan year or
   edited the records, and after time has passed *)

MaxCalls == 3

RepeatNowMonths == {1, 6}
RepeatPrioLists == {<<"Flu">>, <<"Flu", "Tdap">>, <<"Tdap", "Flu">>}
RepeatEndPlanYears == {NowYear, NowYear + 1}
RepeatRecordLists == {<<>>} \cup {<<VaccineRecord("Flu", d, Dose(0))>> : d \in BoosterDates}

RepeatInit ==
    /\ build = "debug"
    /\ now \in [year : {NowYear}, month : RepeatNowMonths]
    /\ prio \in RepeatPrioLists
    /\ end_plan_year \in RepeatEndPlanYears
    /\ records \in RepeatRecordLists
    /\ pc = "call"
    /\ result = NotRun
    /\ VACCINES = OnceLock_new
    /\ calls = <<>>
    /\ BoosterIdle
    /\ ConvIdle
    /\ DoseIdle
    /\ DosesIdle
    /\ RestIdle

(* Between two calls the caller's inputs change; the catalog and the log of
   calls are not the caller's to change. *)
Update ==
    /\ pc = "done"
    /\ Len(calls) < MaxCalls
    /\ now' \in [year : {NowYear}, month : RepeatNowMonths]
    /\ prio' \in RepeatPrioLists
    /\ end_plan_year' \in RepeatEndPlanYears
    /\ records' \in RepeatRecordLists
    /\ pc' = "call"
    /\ UNCHANGED <<build, result, VACCINES, calls>>
    /\ UNCHANGED <<booster_vars, conv_vars, dose_vars, doses_vars>>
    /\ UNCHANGED rest_vars

RepeatNext == Schedule \/ Update

RepeatSpec == RepeatInit /\ [][RepeatNext]_vars

----------------------------------------------------------------------------
(* Properties of repeated calls, checked under RepeatSpec *)

SameInputs(c, d) ==
    /\ c.now = d.now
    /\ c.prio = d.prio
    /\ c.end_plan_year = d.end_plan_year
    /\ c.records = d.records

(* C19: two calls of Vaccine::schedule with identical now, prio,
   end_plan_year and records return identical outcomes, whatever calls were
   made before or between them; a call leaves the records as they were, and
   the catalog, once initialised, is the catalog of get_vaccines for good. *)
C19_ScheduleIsDeterministic ==
    /\ \A i, j \in 1..Len(calls) :
          SameInputs(calls[i], calls[j]) => calls[i].result = calls[j].result
    /\ \A i \in 1..Len(calls) : calls[i].records_after = calls[i].records
    /\ VACCINES.set => VACCINES.map = get_vaccines
    /\ calls # <<>> => VACCINES.set

(* C19's case: the same inputs are scheduled twice with a call on other
   inputs, and another outcome, between them; the outcome has appointments. *)
C19_Witness ==
    /\ Len(calls) = 3
    /\ SameInputs(calls[1], calls[3])
    /\ ~SameInputs(calls[1], calls[2])
    /\ calls[1].result.status = "ok"
    /\ calls[1].result.val # <<>>
    /\ calls[2].result # calls[1].result

----------------------------------------------------------------------------
(* Independence of the vaccines of one call, checked under Spec *)

(* The appointments of one vaccine inside a list, in the order of the list *)
AppointmentsOf(name, appts) == SelectSeq(appts, LAMBDA a : a.vaccine = name)

(* C20: the appointments of a vaccine V inside the list Vaccine::schedule
   returns are the list it returns when V is the only enabled vaccine and
   the records of every other vaccine are taken away: the other enabled
   vaccines, their position in prio and their records do not matter. *)
C20_NoCrossVaccineDependency ==
    Returned =>
        \A k \in 1..Len(prio) :
            AppointmentsOf(prio[k], result.val)
                = Vaccine_schedule(build, now, <<prio[k]>>, end_plan_year,
                                   SelectSeq(records, LAMBDA r : r.vaccine = prio[k])).val

(* C20's case: two enabled vaccines, each with appointments, a record of
   each of them, and the sort interleaves their appointments. *)
C20_Witness ==
    /\ Returned
    /\ Len(prio) = 2
    /\ \A k \in 1..2 :
          /\ AppointmentsOf(prio[k], result.val) # <<>>
          /\ \E i \in 1..Len(records) : records[i].vaccine = prio[k]
    /\ result.val # Pushed

----------------------------------------------------------------------------
(* Properties of the Seasonal schedule and of the order of doses and
   boosters, checked under BoosterSpec *)

(* The anchor of the Seasonal schedule before its correction, and the first
   booster the correction makes of it *)
SeasonalAnchor ==
    IF bs_in.planned_last_dose_mo.some
    THEN bs_in.planned_last_dose_mo.v + 12
    ELSE Max(0, 12 + round_months(MostRecentDate))
SeasonalFirst ==
    IF SeasonalAnchor < 8 THEN 8
    ELSE IF SeasonalAnchor > 10 THEN 20
    ELSE SeasonalAnchor

(* C22: for the Seasonal schedule an anchor below 8 gives a first booster
   at 8, an anchor from 8 to 10 is kept and an anchor above 10 gives a first
   booster at 20; further boosters follow every 12 months up to the limit.
   With limit 24, a planned last dose at 4 or 10 gives [20], and a last
   record 12 or 7 months ago gives [8, 20]. *)
C22_SeasonalAnchorCorrected ==
    (BoosterReturned /\ bs_in.bs = Seasonal) =>
        /\ \A i \in 1..Len(bs_out.val) :
              bs_out.val[i] = <<Booster, SeasonalFirst + 12 * (i - 1)>>
        /\ bs_out.val = <<>> <=> SeasonalFirst > bs_in.limit_mo
        /\ bs_out.val # <<>> => Last(bs_out.val)[2] + 12 > bs_in.limit_mo
        /\ (bs_in.limit_mo = 24 /\ bs_in.planned_last_dose_mo \in {Some(4), Some(10)})
              => bs_out.val = << <<Booster, 20>> >>
        /\ (/\ bs_in.limit_mo = 24
            /\ ~bs_in.planned_last_dose_mo.some
            /\ round_months(MostRecentDate) \in {-12, -7})
              => bs_out.val = << <<Booster, 8>>, <<Booster, 20>> >>

(* C22's case: no dose is planned and the last record is 2 or 3 months old,
   so the anchor falls in the window and is kept; a second booster follows
   a year later. *)
C22_Witness ==
    /\ BoosterReturned
    /\ bs_in.bs = Seasonal
    /\ ~bs_in.planned_last_dose_mo.some
    /\ Len(bs_out.val) >= 2
    /\ bs_out.val[1][2] \in 9..10
    /\ bs_out.val[2][2] = bs_out.val[1][2] + 12

(* C23: for every booster schedule, every planned_last_dose_mo >= 0 and
   every limit, each offset BoosterSchedule::all_months returns is greater
   than planned_last_dose_mo: no booster before the initial series is
   finished. *)
C23_BoostersAfterPlannedDoses ==
    (BoosterReturned /\ bs_in.planned_last_dose_mo.some) =>
        \A mo \in BoosterOffsets : mo > bs_in.planned_last_dose_mo.v

----------------------------------------------------------------------------
(* Reachability of the unanchored booster branch, checked under DosesSpec *)

(* The remaining doses Vaccine::all_doses computes on its way *)
RemainingDoses == DoseSchedule_all_months(vd_in.vaccine.initial_schedule, DoseRecordsIn)

(* C24: through Vaccine::all_doses the expect on vaccine_records.last()
   never fails: whenever the remaining-dose list is empty the vaccine has a
   record, and a vaccine with no dose record (no record at all, or Booster
   records only) always has a planned dose. *)
C24_UnanchoredBranchUnreachable ==
    vd_out.status # "none" =>
        /\ vd_out.why # "no vaccine records and no scheduled last dose of initial series"
        /\ (RemainingDoses.status = "ok" /\ RemainingDoses.val = <<>>)
              => vd_in.vaccine_records # <<>>
        /\ DoseRecordsIn = <<>>
              => (RemainingDoses.status = "ok" /\ RemainingDoses.val # <<>>)

(* C24's case: no dose remains, so the booster computation is called
   without a planned dose, finds a record to anchor on and returns. *)
C24_Witness ==
    /\ DosesReturned
    /\ RemainingDoses.val = <<>>
    /\ vd_in.vaccine_records # <<>>
    /\ \A i \in 1..Len(vd_in.vaccine_records) : IsDose(vd_in.vaccine_records[i].kind)

----------------------------------------------------------------------------
(* Specification of concurrent calls of Vaccine::get_vaccines.

   get_vaccines is VACCINES.get_or_init(|| HashMap::from_iter([..])) on a
   static std::sync::OnceLock.  A call first looks whether the cell is
   initialised and returns what it holds; otherwise it enters the cell's
   Once: one thread moves it from INCOMPLETE to RUNNING, runs the closure,
   writes the value into the cell and marks it COMPLETE; a thread that
   finds it RUNNING blocks until it is COMPLETE and then reads the cell.
   VACCINES.set is the COMPLETE mark, once_running the RUNNING one. *)

MaxThreads == 3
MaxGets == 2

Threads == 1..MaxThreads

(* Once::call_once_force: the thread that may run the closure is the one
   that finds the Once INCOMPLETE *)
may_run_unguarded(cell, running) == ~cell.set

may_run(cell, running) == ~cell.set /\ ~running

CatalogInit ==
    /\ threads = [t \in Threads |->
                    [pc |-> "idle", gets |-> 0, local |-> OnceLock_new, got |-> OnceLock_new]]
    /\ once_running = FALSE
    /\ built = 0
    /\ EngineIdle
    /\ BoosterIdle
    /\ ConvIdle
    /\ DoseIdle
    /\ DosesIdle
    /\ AppIdle
    /\ ViewIdle

catalog_rest == <<build, now, prio, end_plan_year, records, pc, result, calls,
                  booster_vars, conv_vars, dose_vars, doses_vars, app_vars, view_vars>>

(* A thread calls Vaccine::get_vaccines() *)
GetVaccines(t) ==
    /\ threads[t].pc = "idle"
    /\ threads[t].gets < MaxGets
    /\ threads' = [threads EXCEPT ![t].pc = "get", ![t].gets = @ + 1]
    /\ UNCHANGED <<VACCINES, once_running, built, catalog_rest>>

(* OnceLock::get: an initialised cell is returned at once *)
FastPath(t) ==
    /\ threads[t].pc = "get"
    /\ threads' = IF VACCINES.set
                  THEN [threads EXCEPT ![t].pc = "idle", ![t].got = VACCINES]
                  ELSE [threads EXCEPT ![t].pc = "call_once"]
    /\ UNCHANGED <<VACCINES, once_running, built, catalog_rest>>

(* Once::call_once_force: run the closure, or wait for the thread that does *)
CallOnce(t) ==
    /\ threads[t].pc = "call_once"
    /\ \/ /\ may_run(VACCINES, once_running)
          /\ once_running' = TRUE
          /\ threads' = [threads EXCEPT ![t].pc = "init"]
       \/ /\ VACCINES.set
          /\ once_running' = once_running
          /\ threads' = [threads EXCEPT ![t].pc = "read"]
    /\ UNCHANGED <<VACCINES, built, catalog_rest>>

(* The closure: HashMap::from_iter builds the catalog *)
RunClosure(t) ==
    /\ threads[t].pc = "init"
    /\ threads' = [threads EXCEPT ![t].pc = "store",
                                  ![t].local = [set |-> TRUE, map |-> get_vaccines]]
    /\ built' = built + 1
    /\ UNCHANGED <<VACCINES, once_running, catalog_rest>>

(* The value is written into the cell *)
Store(t) ==
    /\ threads[t].pc = "store"
    /\ VACCINES' = [VACCINES EXCEPT !.map = threads[t].local.map]
    /\ threads' = [threads EXCEPT ![t].pc = "complete"]
    /\ UNCHANGED <<once_running, built, catalog_rest>>

(* The Once becomes COMPLETE and the waiting threads are woken *)
Complete(t) ==
    /\ threads[t].pc = "complete"
    /\ VACCINES' = [VACCINES EXCEPT !.set = TRUE]
    /\ once_running' = FALSE
    /\ threads' = [threads EXCEPT ![t].pc = "read"]
    /\ UNCHANGED <<built, catalog_rest>>

(* get_unchecked: the reference the call returns *)
ReadCell(t) ==
    /\ threads[t].pc = "read"
    /\ threads' = [threads EXCEPT ![t].pc = "idle", ![t].got = VACCINES]
    /\ UNCHANGED <<VACCINES, once_running, built, catalog_rest>>

CatalogNext ==
    \E t \in Threads :
        \/ GetVaccines(t)
        \/ FastPath(t)
        \/ CallOnce(t)
        \/ RunClosure(t)
        \/ Store(t)
        \/ Complete(t)
        \/ ReadCell(t)

CatalogSpec == CatalogInit /\ [][CatalogNext]_vars

----------------------------------------------------------------------------
(* Properties of the catalog's initialisation, checked under CatalogSpec *)

(* C21: when several threads call Vaccine::get_vaccines for the first time
   concurrently, the catalog is built and published exactly once, every
   call returns the same fully built table, and once it is published no
   thread is left that builds or writes it. *)
C21_CatalogInitialisedOnce ==
    /\ built <= 1
    /\ VACCINES.set => (built = 1 /\ VACCINES.map = get_vaccines)
    /\ \A t \in DOMAIN threads :
          /\ threads[t].got.set => threads[t].got.map = get_vaccines
          /\ VACCINES.set => threads[t].pc \notin {"init", "store", "complete"}
          /\ (threads[t].gets > 0 /\ threads[t].pc = "idle") => threads[t].got.set

(* C21's case: a thread made its first call, found the cell empty and
   entered the Once while another thread was initialising it; that thread
   has built the catalog once, published it and returned with its table. *)
C21_Witness ==
    \E a, b \in DOMAIN threads :
        /\ a # b
        /\ threads[a].local.set
        /\ threads[a].pc = "idle"
        /\ threads[a].got.set
        /\ threads[b].gets = 1
        /\ threads[b].pc = "call_once"
        /\ built = 1

----------------------------------------------------------------------------
(* Specification of the application's record list and profile list
   (VaccineHelperApp::update and show_profile_list).  One action is one
   click or one edit; a frame's Delete clicks on records are one action.
   A profile is kept as its records, the rest of it plays no part here. *)

MaxAppRecords == 2

(* What the profile name field can hold, and what the record entry widgets
   can make of a record.  Ticks from now: 5 months ago, now. *)
AppProfileNames == {"", "A"}
AppRecordDates == {-10, 0}
AppRecords == {VaccineRecord("Tdap", d, Booster) : d \in AppRecordDates}
                  \cup {VaccineRecord("Tdap", 0, Dose(0))}

(* impl Default for Profile, impl Default for VaccineRecord *)
Profile_default == <<>>
VaccineRecord_default == VaccineRecord("Tdap", 0, Booster)

(* A record pushed without the sort that follows it *)
push_unsorted(recs, record) == Append(recs, record)

(* records.push(record); records.sort() *)
push_and_sort(recs, record) == sort_records(Append(recs, record))

(* Vec::remove(index), 1-based *)
remove(recs, index) == SubSeq(recs, 1, index - 1) \o SubSeq(recs, index + 1, Len(recs))

(* The deletions of a frame are removed last row first; deletions holds the clicked rows in ascending order *)
RECURSIVE remove_deletions(_, _)
remove_deletions(recs, deletions) ==
    IF deletions = <<>> THEN recs
    ELSE remove_deletions(remove(recs, Last(deletions)),
                          SubSeq(deletions, 1, Len(deletions) - 1))

(* The clicked rows of a frame, in the order the rows are drawn *)
RECURSIVE ascending(_)
ascending(rows) ==
    IF rows = {} THEN <<>>
    ELSE LET least == CHOOSE r \in rows : \A q \in rows : r <= q
         IN  <<least>> \o ascending(rows \ {least})

(* A row of the profile list is the active profile's *)
is_active_row_never(name) == FALSE

is_active_row(name) == name = active_profile

app_rest == <<engine_vars, booster_vars, conv_vars, dose_vars, doses_vars,
              catalog_vars, view_vars>>

AppInit ==
    /\ AppIdle
    /\ EngineIdle
    /\ BoosterIdle
    /\ ConvIdle
    /\ DoseIdle
    /\ DosesIdle
    /\ CatalogIdle
    /\ ViewIdle

(* Delete clicked on one or more rows of the record grid *)
DeleteRecords ==
    /\ \E rows \in (SUBSET (1..Len(profiles[active_profile]))) \ {{}} :
          profiles' = [profiles EXCEPT ![active_profile] =
                          remove_deletions(@, ascending(rows))]
    /\ UNCHANGED <<active_profile, add_record, add_profile_name, app_rest>>

(* New Record clicked *)
NewRecord ==
    /\ ~add_record.some
    /\ add_record' = Some(VaccineRecord_default)
    /\ UNCHANGED <<active_profile, profiles, add_profile_name, app_rest>>

(* The vaccine, kind and date widgets of the record being entered *)
EditRecord ==
    /\ add_record.some
    /\ \E r \in AppRecords : add_record' = Some(r)
    /\ UNCHANGED <<active_profile, profiles, add_profile_name, app_rest>>

(* Add Record clicked: push, then sort *)
AddRecord ==
    /\ add_record.some
    /\ Len(profiles[active_profile]) < MaxAppRecords
    /\ profiles' = [profiles EXCEPT ![active_profile] =
                        push_and_sort(@, add_record.v)]
    /\ add_record' = None
    /\ UNCHANGED <<active_profile, add_profile_name, app_rest>>

(* Activate clicked on a row of the profile list *)
Activate ==
    /\ \E name \in DOMAIN profiles :
          /\ ~is_active_row(name)
          /\ active_profile' = name
    /\ UNCHANGED <<profiles, add_record, add_profile_name, app_rest>>

(* Delete clicked on a row of the profile list *)
DeleteProfile ==
    /\ \E name \in DOMAIN profiles :
          /\ ~is_active_row(name)
          /\ profiles' = [n \in DOMAIN profiles \ {name} |-> profiles[n]]
    /\ UNCHANGED <<active_profile, add_record, add_profile_name, app_rest>>

(* The profile name field is edited *)
TypeProfileName ==
    /\ \E name \in AppProfileNames : add_profile_name' = name
    /\ UNCHANGED <<active_profile, profiles, add_record, app_rest>>

(* Add clicked: HashMap::insert of a default profile under the name typed,
   which becomes the active profile *)
AddProfile ==
    /\ profiles' = [n \in DOMAIN profiles \cup {add_profile_name} |->
                        IF n = add_profile_name THEN Profile_default ELSE profiles[n]]
    /\ active_profile' = add_profile_name
    /\ add_profile_name' = ""
    /\ UNCHANGED <<add_record, app_rest>>

AppNext ==
    \/ DeleteRecords
    \/ NewRecord
    \/ EditRecord
    \/ AddRecord
    \/ Activate
    \/ DeleteProfile
    \/ TypeProfileName
    \/ AddProfile

AppSpec == AppInit /\ [][AppNext]_vars

----------------------------------------------------------------------------
(* Properties of the record list and the profile list, checked under AppSpec *)

(* C25: after any sequence of Add Record and Delete actions on a record
   list that starts empty, several deletions in one frame included, the
   records of the active profile, and of every other profile, are in
   ascending order of date: the is_sorted precondition of the booster
   computation holds whenever the schedule is recomputed. *)
C25_RecordsStaySorted ==
    /\ is_sorted(profiles[active_profile])
    /\ \A name \in DOMAIN profiles : is_sorted(profiles[name])

(* C25's case: the active profile holds two records of different dates
   after the entry widget has been closed by Add Record, next to another
   profile that holds records of its own. *)
C25_Witness ==
    /\ ~add_record.some
    /\ Len(profiles[active_profile]) = 2
    /\ profiles[active_profile][1].date < profiles[active_profile][2].date
    /\ profiles[active_profile][1].kind = Booster
    /\ \E name \in DOMAIN profiles \ {active_profile} : Len(profiles[name]) = 2

(* C26: after any sequence of Add, Activate and Delete on the profile list
   the active profile's name is a key of the profiles map, so the lookups
   of update find a profile; no Delete is possible on the active profile's
   row, and no step removes the profile that is active after it. *)
C26_ActiveProfilePresent ==
    /\ [](active_profile \in DOMAIN profiles)
    /\ [][\A name \in DOMAIN profiles \ DOMAIN profiles' :
              name # active_profile /\ name # active_profile']_vars

(* C26's case: profiles have been added, one of them activated and the
   default profile deleted. *)
C26_Witness ==
    /\ "Default" \notin DOMAIN profiles
    /\ DOMAIN profiles = {"", "A"}
    /\ active_profile = "A"
    /\ add_profile_name = ""

----------------------------------------------------------------------------
(* Specification of the schedule view of VaccineHelperApp::update: the
   schedule is recomputed from the profile, then displayed by the loops
   over years and months. *)

(* The years and months the display loops run over, and the reach of the
   end plan year slider *)
DisplayYears == 50
DisplayMonths == 12
SliderYears == 100

ViewNowMonths == 1..12
ViewEndPlanYears ==
    {NowYear, NowYear + 1, NowYear + DisplayYears - 1, NowYear + DisplayYears,
     NowYear + DisplayYears + 5, NowYear + SliderYears}
ViewNames == {"Tdap", "Meningitis"}
ViewPrioLists == {s \in SeqsUpTo(ViewNames, MaxPrio) : NoRepeat(s)}
ViewRecordLists == {<<>>} \cup {<<VaccineRecord("Tdap", d, Dose(0))>> : d \in BoosterDates}

(* What the view draws, line by line *)
YearHeading(y) == [line |-> "year", year |-> y, month |-> 0, appt |-> 0]
MonthHeading(y, mo) == [line |-> "month", year |-> y, month |-> mo, appt |-> 0]
Label(y, mo, i) == [line |-> "label", year |-> y, month |-> mo, appt |-> i]

(* for appt in &profile.schedule { if appt.year() == y && appt.month() == mo
   { label } }, appointments named by their place in the schedule *)
show_labels(schedule, y, mo) ==
    LET places == [i \in 1..Len(schedule) |-> i]
        here == SelectSeq(places, LAMBDA i : schedule[i].year = y /\ schedule[i].month = mo)
    IN  [k \in 1..Len(here) |-> Label(y, mo, here[k])]

(* for mo in month..month + 12: the heading of the month if an appointment
   falls in it, then its appointments *)
RECURSIVE show_months(_, _, _, _)
show_months(schedule, y, mo, end) ==
    IF mo >= end THEN <<>>
    ELSE (IF \E i \in 1..Len(schedule) : schedule[i].year = y /\ schedule[i].month = mo
          THEN <<MonthHeading(y, mo)>> ELSE <<>>)
         \o show_labels(schedule, y, mo)
         \o show_months(schedule, y, mo + 1, end)

(* for y in year..year + 50: the heading of the year if an appointment falls
   in it, then its months *)
RECURSIVE show_years(_, _, _, _)
show_years(schedule, at, y, end) ==
    IF y >= end THEN <<>>
    ELSE (IF \E i \in 1..Len(schedule) : schedule[i].year = y
          THEN <<YearHeading(y)>> ELSE <<>>)
         \o show_months(schedule, y, at.month, at.month + DisplayMonths)
         \o show_years(schedule, at, y + 1, end)

show_schedule(schedule, at) == show_years(schedule, at, at.year, at.year + DisplayYears)

ViewInit ==
    /\ build = "debug"
    /\ now \in [year : {NowYear}, month : ViewNowMonths]
    /\ prio \in ViewPrioLists
    /\ end_plan_year \in ViewEndPlanYears
    /\ records \in ViewRecordLists
    /\ pc = "call"
    /\ result = NotRun
    /\ VACCINES = OnceLock_new
    /\ calls = <<>>
    /\ BoosterIdle
    /\ ConvIdle
    /\ DoseIdle
    /\ DosesIdle
    /\ RestIdle

(* The display loops, on the schedule the same frame has just recomputed;
   the unwrap of the recomputation ends the frame on anything but Ok *)
ShowSchedule ==
    /\ pc = "done"
    /\ IF result.status = "ok"
       THEN /\ shown' = show_schedule(result.val, now)
            /\ pc' = "shown"
       ELSE /\ shown' = <<>>
            /\ pc' = "panicked"
    /\ UNCHANGED <<build, now, prio, end_plan_year, records, result, VACCINES, calls>>
    /\ UNCHANGED <<booster_vars, conv_vars, dose_vars, doses_vars, catalog_vars, app_vars>>

ViewNext == Schedule \/ ShowSchedule

ViewSpec == ViewInit /\ [][ViewNext]_vars

----------------------------------------------------------------------------
(* Properties of the schedule view, checked under ViewSpec *)

Shown == pc = "shown"

(* The lines of the view that are the label of the appointment at place i *)
LabelsOf(i) == {k \in 1..Len(shown) : shown[k].line = "label" /\ shown[k].appt = i}

(* C27: every appointment of the freshly recomputed schedule is drawn
   exactly once, in the iteration of its own year and month, whatever the
   current month and the end plan year of the slider. *)
C27_EveryAppointmentShown ==
    Shown =>
        \A i \in 1..Len(result.val) :
            /\ Cardinality(LabelsOf(i)) = 1
            /\ \A k \in LabelsOf(i) :
                  /\ shown[k].year = result.val[i].year
                  /\ shown[k].month = result.val[i].month

(* What the loops do draw: an appointment is drawn, once and under its own
   year and month, exactly when its year is one of the DisplayYears years
   from now on and its month is not before the current month. *)
C27_ShownFromCurrentMonthOn ==
    Shown =>
        \A i \in 1..Len(result.val) :
            LET appt == result.val[i]
                drawn == /\ appt.year >= now.year
                         /\ appt.year < now.year + DisplayYears
                         /\ appt.month >= now.month
            IN  /\ Cardinality(LabelsOf(i)) = (IF drawn THEN 1 ELSE 0)
                /\ \A k \in LabelsOf(i) :
                      shown[k].year = appt.year /\ shown[k].month = appt.month

(* C27's case: in June, with the plan ending next year, the schedule has an
   appointment of next year in a month before June, and the view has been
   drawn. *)
C27_Witness ==
    /\ Shown
    /\ now.month = 6
    /\ end_plan_year = NowYear + 1
    /\ \E i \in 1..Len(result.val) :
          /\ result.val[i].year = NowYear + 1
          /\ result.val[i].month < 6
          /\ LabelsOf(i) = {}

====
